---- MODULE Spec2Model ----
(***************************************************************************)
(* The Express todo server of src/server.js as a state machine.            *)
(*                                                                         *)
(* State: the module-level collection `todos`, the id counter `nextId`,    *)
(* the wall clock read by `new Date()`, and the last request handled with  *)
(* the response it was answered with.  One action per route handler; a     *)
(* request reaches a handler through Dispatch, which walks the routes in   *)
(* the order app.get/app.post/... registered them.                         *)
(*                                                                         *)
(* JavaScript strings are sequences of one-character strings, so that      *)
(* trim, length, toLowerCase, includes and parseInt are computed, not      *)
(* assumed.  A Hangul syllable is written as its romanised name and counts *)
(* as one character (one UTF-16 code unit).                                *)
(***************************************************************************)
EXTENDS Integers, Sequences, FiniteSets, TLC

VARIABLES
    todos,      \* the collection `todos`, in insertion order
    nextId,     \* the id counter `nextId`
    now,        \* the time value `new Date()` reads, in milliseconds
    request,    \* the last request received
    response,   \* the response it was answered with
    assigned    \* history: the ids Create has handed out (see Served)

vars == <<todos, nextId, now, request, response, assigned>>

(***************************************************************************)
(* Bounds of the model.                                                    *)
(***************************************************************************)
\* No request is explored that would leave more records than this.
MaxTodos == 4
\* No request is explored that would leave the id counter above this.
MaxNextId == 6
\* The clock is advanced at most this many times.
MaxTicks == 1
\* Milliseconds by which one Tick advances the clock.
TickMs == 600
\* By how many characters the longest request text exceeds the limit.
Excess == 1

(***************************************************************************)
(* JavaScript strings                                                      *)
(***************************************************************************)
UPPER == <<"A","B","C","D","E","F","G","H","I","J","K","L","M",
           "N","O","P","Q","R","S","T","U","V","W","X","Y","Z">>
LOWER == <<"a","b","c","d","e","f","g","h","i","j","k","l","m",
           "n","o","p","q","r","s","t","u","v","w","x","y","z">>
DIGITS == <<"0","1","2","3","4","5","6","7","8","9">>
WhiteSpace == {" ", "\t", "\n"}

\* Index of c in sequence s, 0 when it does not occur.
IndexOf(s, c) ==
    IF \E i \in 1..Len(s) : s[i] = c
    THEN CHOOSE i \in 1..Len(s) : s[i] = c
    ELSE 0

\* String.prototype.toLowerCase
LowerChar(c) == IF IndexOf(UPPER, c) = 0 THEN c ELSE LOWER[IndexOf(UPPER, c)]
toLowerCase(s) == [i \in 1..Len(s) |-> LowerChar(s[i])]

\* String.prototype.trim: drop the leading and the trailing white space.
RECURSIVE TrimStart(_)
TrimStart(s) ==
    IF s # <<>> /\ Head(s) \in WhiteSpace THEN TrimStart(Tail(s)) ELSE s
RECURSIVE TrimEnd(_)
TrimEnd(s) ==
    IF s # <<>> /\ s[Len(s)] \in WhiteSpace
    THEN TrimEnd(SubSeq(s, 1, Len(s) - 1))
    ELSE s
trim(s) == TrimEnd(TrimStart(s))

\* String.prototype.includes
includes(s, sub) ==
    \E i \in 0..(Len(s) - Len(sub)) : SubSeq(s, i + 1, i + Len(sub)) = sub

\* n copies of character c.
Repeat(c, n) == [i \in 1..n |-> c]

(***************************************************************************)
(* parseInt(string) in radix 10: white space, an optional sign, then the   *)
(* longest run of digits; NaN when there is no digit.                      *)
(***************************************************************************)
NaN == [nan |-> TRUE, n |-> 0]
Num(n) == [nan |-> FALSE, n |-> n]

RECURSIVE DigitsValue(_, _)
DigitsValue(s, acc) ==
    IF s = <<>> \/ IndexOf(DIGITS, Head(s)) = 0
    THEN acc
    ELSE DigitsValue(Tail(s), 10 * acc + (IndexOf(DIGITS, Head(s)) - 1))

parseInt(str) ==
    LET s    == TrimStart(str)
        neg  == s # <<>> /\ Head(s) = "-"
        body == IF s # <<>> /\ Head(s) \in {"-", "+"} THEN Tail(s) ELSE s
    IN  IF body = <<>> \/ IndexOf(DIGITS, Head(body)) = 0
        THEN NaN
        ELSE Num(IF neg THEN 0 - DigitsValue(body, 0) ELSE DigitsValue(body, 0))

(***************************************************************************)
(* JavaScript values as they arrive in a JSON body or a query string.      *)
(***************************************************************************)
undefined == [type |-> "undefined"]
null      == [type |-> "null"]
Str(s)    == [type |-> "string", val |-> s]
Bool(b)   == [type |-> "boolean", val |-> b]
Number(n) == [type |-> "number", val |-> n]

\* a === b
StrictEquals(a, b) == a.type = b.type /\ a = b

\* ToBoolean(v): what `!v`, `v && ...` and `if (v)` test.
Truthy(v) ==
    CASE v.type = "undefined" -> FALSE
      [] v.type = "null"      -> FALSE
      [] v.type = "boolean"   -> v.val
      [] v.type = "number"    -> v.val # 0
      [] v.type = "string"    -> v.val # <<>>

\* String literals of the source.
low    == <<"l","o","w">>
medium == <<"m","e","d","i","u","m">>
high   == <<"h","i","g","h">>
all    == <<"a","l","l">>
true   == <<"t","r","u","e">>
false  == <<"f","a","l","s","e">>

(***************************************************************************)
(* Dates.  toISOString prints the time value field by field and            *)
(* new Date(string) reads the fields back; only seconds and milliseconds   *)
(* vary within the model's horizon.                                        *)
(***************************************************************************)
toISOString(t) == [sec |-> t \div 1000, ms |-> t % 1000]
DateParse(iso) == iso.sec * 1000 + iso.ms

(***************************************************************************)
(* The store: `todos` and `nextId` as the module sets them at load.        *)
(***************************************************************************)
Text1 == <<"N","o","d","e",".","j","s"," ","bae","u","gi">>
Text2 == <<"E","x","p","r","e","s","s"," ","seo","beo"," ","man","deul","gi">>
Text3 == <<"R","E","S","T"," ","A","P","I"," ","gu","hyeon","ha","gi">>

Todo(id, text, completed, priority, createdAt, updatedAt) ==
    [id |-> id, text |-> text, completed |-> completed, priority |-> priority,
     createdAt |-> createdAt, updatedAt |-> updatedAt]

InitialTodos(t) ==
    << Todo(1, Text1, Bool(FALSE), high,   toISOString(t), toISOString(t)),
       Todo(2, Text2, Bool(TRUE),  medium, toISOString(t), toISOString(t)),
       Todo(3, Text3, Bool(FALSE), high,   toISOString(t), toISOString(t)) >>

InitialNextId == 4

(***************************************************************************)
(* Requests.  A path is its sequence of segments; a query parameter or a   *)
(* body field that was not sent is `undefined`; a request without a JSON   *)
(* body leaves req.body undefined (present = FALSE).                       *)
(***************************************************************************)
Query(completed, priority, search) ==
    [completed |-> completed, priority |-> priority, search |-> search]
NoQuery == Query(undefined, undefined, undefined)

Body(text, completed, priority) ==
    [present |-> TRUE, text |-> text, completed |-> completed, priority |-> priority]
NoBody ==
    [present |-> FALSE, text |-> undefined, completed |-> undefined,
     priority |-> undefined]

Req(method, path, query, body) ==
    [method |-> method, path |-> path, query |-> query, body |-> body]

api      == <<"a","p","i">>
todosSeg == <<"t","o","d","o","s">>
health   == <<"h","e","a","l","t","h">>
stats    == <<"s","t","a","t","s">>

\* The collection path and the path of one member.
TodosPath    == <<api, todosSeg>>
TodoPath(id) == <<api, todosSeg, id>>

(***************************************************************************)
(* Routing.  Express tries the routes in the order they were registered    *)
(* and runs the first whose method and path match; a literal segment       *)
(* matches case-insensitively, `:id` matches any non-empty segment.        *)
(***************************************************************************)
Lit(s)   == [param |-> FALSE, lit |-> s]
Param    == [param |-> TRUE, lit |-> <<>>]
Route(method, pattern, wildcard, handler) ==
    [method |-> method, pattern |-> pattern, wildcard |-> wildcard,
     handler |-> handler]

Routes ==
    << Route("GET",    <<>>,                               FALSE, "root"),
       Route("GET",    <<Lit(api), Lit(health)>>,          FALSE, "health"),
       Route("GET",    <<Lit(api), Lit(todosSeg)>>,        FALSE, "listTodos"),
       Route("GET",    <<Lit(api), Lit(todosSeg), Param>>, FALSE, "getTodo"),
       Route("POST",   <<Lit(api), Lit(todosSeg)>>,        FALSE, "createTodo"),
       Route("PUT",    <<Lit(api), Lit(todosSeg), Param>>, FALSE, "updateTodo"),
       Route("DELETE", <<Lit(api), Lit(todosSeg), Param>>, FALSE, "deleteTodo"),
       Route("DELETE", <<Lit(api), Lit(todosSeg)>>,        FALSE, "deleteTodos"),
       Route("GET",    <<Lit(api), Lit(todosSeg), Lit(stats)>>, FALSE, "stats"),
       Route("ANY",    <<>>,                               TRUE,  "notFound") >>

SegmentMatches(pat, seg) ==
    IF pat.param THEN seg # <<>> ELSE toLowerCase(pat.lit) = toLowerCase(seg)

RouteMatches(route, method, path) ==
    /\ route.method \in {"ANY", method}
    /\ IF route.wildcard
       THEN path # <<>>
       ELSE /\ Len(route.pattern) = Len(path)
            /\ \A i \in 1..Len(path) : SegmentMatches(route.pattern[i], path[i])

\* The handler that answers the request: the first matching route's.
Dispatch(method, path) ==
    IF \E i \in 1..Len(Routes) : RouteMatches(Routes[i], method, path)
    THEN LET first == CHOOSE i \in 1..Len(Routes) :
                 /\ RouteMatches(Routes[i], method, path)
                 /\ \A j \in 1..(i - 1) : ~RouteMatches(Routes[j], method, path)
         IN  Routes[first].handler
    ELSE "finalhandler"

(***************************************************************************)
(* Responses: the handler that wrote it, res.status and the JSON body.     *)
(* The source's messages are Korean sentences; each is named here by what  *)
(* it says.                                                                *)
(***************************************************************************)
Response(handler, status, body) ==
    [handler |-> handler, status |-> status, body |-> body]
Failure(handler, status, message) ==
    Response(handler, status, [success |-> FALSE, message |-> message])

\* What a handler leaves behind: the store and the response.
Outcome(ts, nid, res) == [todos |-> ts, nextId |-> nid, response |-> res]
\* A handler that answers without touching the store.
Answer(res) == Outcome(todos, nextId, res)

(***************************************************************************)
(* Helpers shared by the handlers.                                         *)
(***************************************************************************)
\* The longest text the handlers accept.
MaxTextLength == 100

\* Mutant of ValidPriority: any string passes.
ValidPriority_AnyString(priority) == priority.type = "string"

\* ['low', 'medium', 'high'].includes(priority)
ValidPriority(priority) ==
    priority.type = "string" /\ priority.val \in {low, medium, high}

\* Mutant of TextTooLong: the length is taken after trimming.
TextTooLong_Trimmed(text) == Len(trim(text.val)) > MaxTextLength

\* text.length > 100, on the text as it was sent.
TextTooLong(text) == Len(text.val) > MaxTextLength

\* todos.findIndex(t => t.id === id) for id = parseInt(req.params.id);
\* 0 stands for the source's -1.  NaN equals no id.
findIndex(ts, id) ==
    IF ~id.nan /\ \E i \in 1..Len(ts) : ts[i].id = id.n
    THEN CHOOSE i \in 1..Len(ts) :
             ts[i].id = id.n /\ \A j \in 1..(i - 1) : ts[j].id # id.n
    ELSE 0

(***************************************************************************)
(* GET /api/todos                                                          *)
(***************************************************************************)
\* completed === 'true'
IsCompleted(completed) == StrictEquals(completed, Str(true))

FilterCompleted(ts, completed) ==
    IF completed.type # "undefined"
    THEN LET Keep(todo) == StrictEquals(todo.completed, Bool(IsCompleted(completed)))
         IN  SelectSeq(ts, Keep)
    ELSE ts

\* Mutant of FilterPriority: a value that names no priority is ignored.
FilterPriority_IgnoreUnknown(ts, priority) ==
    IF priority.type = "string" /\ priority.val \in {low, medium, high}
    THEN LET Keep(todo) == StrictEquals(Str(todo.priority), priority)
         IN  SelectSeq(ts, Keep)
    ELSE ts

FilterPriority(ts, priority) ==
    IF Truthy(priority) /\ ~StrictEquals(priority, Str(all))
    THEN LET Keep(todo) == StrictEquals(Str(todo.priority), priority)
         IN  SelectSeq(ts, Keep)
    ELSE ts

FilterSearch(ts, search) ==
    IF Truthy(search)
    THEN LET Keep(todo) ==
                 includes(toLowerCase(todo.text), toLowerCase(search.val))
         IN  SelectSeq(ts, Keep)
    ELSE ts

priorityOrder(p) ==
    CASE p = high   -> 3
      [] p = medium -> 2
      [] p = low    -> 1

\* Mutant of Compare: equal priorities are ordered oldest first.
Compare_OldestFirst(a, b) ==
    IF priorityOrder(a.priority) # priorityOrder(b.priority)
    THEN priorityOrder(b.priority) - priorityOrder(a.priority)
    ELSE DateParse(a.createdAt) - DateParse(b.createdAt)

\* The comparator given to sort: negative when a goes first.
Compare(a, b) ==
    IF priorityOrder(a.priority) # priorityOrder(b.priority)
    THEN priorityOrder(b.priority) - priorityOrder(a.priority)
    ELSE DateParse(b.createdAt) - DateParse(a.createdAt)

\* Array.prototype.sort is stable: x is placed before the first member that
\* must come after it, and behind every member it ties with.
RECURSIVE Insert(_, _)
Insert(x, sorted) ==
    IF sorted = <<>> THEN <<x>>
    ELSE IF Compare(x, Head(sorted)) < 0 THEN <<x>> \o sorted
    ELSE <<Head(sorted)>> \o Insert(x, Tail(sorted))

RECURSIVE sort(_)
sort(ts) ==
    IF ts = <<>> THEN <<>>
    ELSE Insert(ts[Len(ts)], sort(SubSeq(ts, 1, Len(ts) - 1)))

ListHandler(req) ==
    LET filteredTodos ==
            sort(FilterSearch(FilterPriority(FilterCompleted(todos,
                     req.query.completed), req.query.priority), req.query.search))
    IN  Answer(Response("listTodos", 200,
            [success |-> TRUE, data |-> filteredTodos,
             count |-> Len(filteredTodos), total |-> Len(todos)]))

(***************************************************************************)
(* GET /api/todos/:id                                                      *)
(***************************************************************************)
GetHandler(req) ==
    LET id    == parseInt(req.path[3])
        index == findIndex(todos, id)
    IN  IF index = 0
        THEN Answer(Failure("getTodo", 404, "todo not found"))
        ELSE Answer(Response("getTodo", 200,
                 [success |-> TRUE, data |-> todos[index]]))

(***************************************************************************)
(* POST /api/todos                                                         *)
(***************************************************************************)
\* The record Create stores.
NewTodo(id, text, priority) ==
    Todo(id, trim(text.val), Bool(FALSE), priority.val,
         toISOString(now), toISOString(now))

\* Mutant of Incremented: the counter is read but not advanced.
Incremented_Stuck(nid) == nid

\* nextId++ leaves the counter one higher.
Incremented(nid) == nid + 1

CreateHandler(req) ==
    LET text     == req.body.text
        priority == IF req.body.priority.type = "undefined"
                    THEN Str(medium) ELSE req.body.priority
    IN  CASE \* destructuring an undefined body throws; the catch answers 500
             ~req.body.present ->
               Answer(Failure("createTodo", 500, "create failed"))
          [] req.body.present /\ ~Truthy(text) ->
               Answer(Failure("createTodo", 400, "text required"))
          [] \* text.trim is not a function
             req.body.present /\ Truthy(text) /\ text.type # "string" ->
               Answer(Failure("createTodo", 500, "create failed"))
          [] OTHER ->
               IF trim(text.val) = <<>>
               THEN Answer(Failure("createTodo", 400, "text required"))
               ELSE IF TextTooLong(text)
               THEN Answer(Failure("createTodo", 400, "text too long"))
               ELSE IF ~ValidPriority(priority)
               THEN Answer(Failure("createTodo", 400, "priority invalid"))
               ELSE LET newTodo == NewTodo(nextId, text, priority)
                    IN  Outcome(Append(todos, newTodo), Incremented(nextId),
                            Response("createTodo", 201,
                                [success |-> TRUE, data |-> newTodo]))

(***************************************************************************)
(* PUT /api/todos/:id                                                      *)
(***************************************************************************)
\* Mutant of Merge: a field the patch leaves out is overwritten all the same.
Merge_Overwrite(todo, text, completed, priority) ==
    Todo(todo.id,
         IF text.type # "undefined" THEN trim(text.val) ELSE todo.text,
         completed,
         IF priority.type # "undefined" THEN priority.val ELSE todo.priority,
         todo.createdAt,
         toISOString(now))

\* { ...todo, ...(text !== undefined && {text: text.trim()}),
\*   ...(completed !== undefined && {completed}),
\*   ...(priority !== undefined && {priority}), updatedAt }
Merge(todo, text, completed, priority) ==
    Todo(todo.id,
         IF text.type # "undefined" THEN trim(text.val) ELSE todo.text,
         IF completed.type # "undefined" THEN completed ELSE todo.completed,
         IF priority.type # "undefined" THEN priority.val ELSE todo.priority,
         todo.createdAt,
         toISOString(now))

UpdateHandler(req) ==
    LET id        == parseInt(req.path[3])
        text      == req.body.text
        completed == req.body.completed
        priority  == req.body.priority
        todoIndex == findIndex(todos, id)
    IN  CASE ~req.body.present ->
               Answer(Failure("updateTodo", 500, "update failed"))
          [] req.body.present /\ todoIndex = 0 ->
               Answer(Failure("updateTodo", 404, "todo not found"))
          [] \* text.trim is not a function, or text is null
             req.body.present /\ todoIndex # 0
                 /\ text.type \notin {"undefined", "string"} ->
               Answer(Failure("updateTodo", 500, "update failed"))
          [] OTHER ->
               IF text.type # "undefined" /\ trim(text.val) = <<>>
               THEN Answer(Failure("updateTodo", 400, "text required"))
               ELSE IF text.type # "undefined" /\ TextTooLong(text)
               THEN Answer(Failure("updateTodo", 400, "text too long"))
               ELSE IF priority.type # "undefined" /\ ~ValidPriority(priority)
               THEN Answer(Failure("updateTodo", 400, "priority invalid"))
               ELSE LET updatedTodo ==
                            Merge(todos[todoIndex], text, completed, priority)
                    IN  Outcome([todos EXCEPT ![todoIndex] = updatedTodo], nextId,
                            Response("updateTodo", 200,
                                [success |-> TRUE, data |-> updatedTodo]))

(***************************************************************************)
(* DELETE /api/todos/:id                                                   *)
(***************************************************************************)
\* todos.splice(index, 1)
splice(ts, index) ==
    SubSeq(ts, 1, index - 1) \o SubSeq(ts, index + 1, Len(ts))

DeleteHandler(req) ==
    LET id        == parseInt(req.path[3])
        todoIndex == findIndex(todos, id)
    IN  IF todoIndex = 0
        THEN Answer(Failure("deleteTodo", 404, "todo not found"))
        ELSE Outcome(splice(todos, todoIndex), nextId,
                 Response("deleteTodo", 200,
                     [success |-> TRUE, data |-> todos[todoIndex]]))

(***************************************************************************)
(* DELETE /api/todos                                                       *)
(***************************************************************************)
\* Mutant of NextIdAfterFilteredDelete: the filtered delete resets the
\* counter as the unfiltered one does.
NextIdAfterFilteredDelete_Reset(nid) == 1

\* The counter after a delete restricted to one completed state.
NextIdAfterFilteredDelete(nid) == nid

\* Mutant of Remaining: the filter tests truthiness instead of identity.
Remaining_Truthy(ts, isCompleted) ==
    LET Keep(todo) == Truthy(todo.completed) # isCompleted
    IN  SelectSeq(ts, Keep)

\* todos.filter(todo => todo.completed !== isCompleted)
Remaining(ts, isCompleted) ==
    LET Keep(todo) == ~StrictEquals(todo.completed, Bool(isCompleted))
    IN  SelectSeq(ts, Keep)

DeleteAllHandler(req) ==
    LET completed == req.query.completed
    IN  IF completed.type # "undefined"
        THEN LET isCompleted  == IsCompleted(completed)
                 Matches(todo) == StrictEquals(todo.completed, Bool(isCompleted))
                 deletedCount == Len(SelectSeq(todos, Matches))
             IN  Outcome(Remaining(todos, isCompleted),
                     NextIdAfterFilteredDelete(nextId),
                     Response("deleteTodos", 200,
                         [success |-> TRUE, deletedCount |-> deletedCount]))
        ELSE Outcome(<<>>, 1,
                 Response("deleteTodos", 200,
                     [success |-> TRUE, deletedCount |-> Len(todos)]))

(***************************************************************************)
(* GET /api/todos/stats                                                    *)
(***************************************************************************)
\* Math.round(x / y * 100): the nearest integer, halves upwards.
RoundedPercent(x, y) == (200 * x + y) \div (2 * y)

StatsBody(ts) ==
    LET IsDone(t)   == Truthy(t.completed)
        IsHigh(t)   == t.priority = high
        IsMedium(t) == t.priority = medium
        IsLow(t)    == t.priority = low
        total       == Len(ts)
        completed   == Len(SelectSeq(ts, IsDone))
    IN  [success |-> TRUE,
         data |-> [total |-> total,
                   completed |-> completed,
                   active |-> total - completed,
                   completionRate |->
                       IF total > 0 THEN RoundedPercent(completed, total) ELSE 0,
                   byPriority |-> [high |-> Len(SelectSeq(ts, IsHigh)),
                                   medium |-> Len(SelectSeq(ts, IsMedium)),
                                   low |-> Len(SelectSeq(ts, IsLow))]]]

StatsHandler(req) == Answer(Response("stats", 200, StatsBody(todos)))

(***************************************************************************)
(* GET /, GET /api/health and the catch-all 404                            *)
(***************************************************************************)
RootHandler(req) ==
    Answer(Response("root", 200, [version |-> "1.0.0"]))

HealthHandler(req) ==
    Answer(Response("health", 200,
        [status |-> "OK", timestamp |-> toISOString(now)]))

NotFoundHandler(req) ==
    Answer(Response("notFound", 404,
        [success |-> FALSE, message |-> "route not found", path |-> req.path]))

(***************************************************************************)
(* The server answers one request at a time: the handler Dispatch selects  *)
(* runs to completion on the store.  Each action below is one handler      *)
(* answering a request drawn from R, a set of requests paired with the     *)
(* handler Dispatch selects for each (Routed).                             *)
(*                                                                         *)
(* `assigned` is a history variable, not state of the server: the ids      *)
(* Create has handed out, since the process started (ever) and since the   *)
(* collection was last cleared by an unfiltered DELETE /api/todos          *)
(* (sinceClear); both start as the ids of the initial records.             *)
(***************************************************************************)
Routed(R) == {[req |-> r, handler |-> Dispatch(r.method, r.path)] : r \in R}

Created(res) == res.handler = "createTodo" /\ res.status = 201
Cleared(req, res) ==
    res.handler = "deleteTodos" /\ req.query.completed.type = "undefined"

Served(r, out) ==
    /\ Len(out.todos) <= MaxTodos
    /\ out.nextId <= MaxNextId
    /\ todos' = out.todos
    /\ nextId' = out.nextId
    /\ request' = r.req
    /\ response' = out.response
    /\ assigned' =
         IF Created(out.response)
         THEN [ever       |-> assigned.ever \cup {out.response.body.data.id},
               sinceClear |-> assigned.sinceClear \cup {out.response.body.data.id}]
         ELSE IF Cleared(r.req, out.response)
         THEN [assigned EXCEPT !.sinceClear = {}]
         ELSE assigned
    /\ UNCHANGED now

GetRoot(R) ==
    \E r \in R : r.handler = "root" /\ Served(r, RootHandler(r.req))
GetHealth(R) ==
    \E r \in R : r.handler = "health" /\ Served(r, HealthHandler(r.req))
ListTodos(R) ==
    \E r \in R : r.handler = "listTodos" /\ Served(r, ListHandler(r.req))
GetTodo(R) ==
    \E r \in R : r.handler = "getTodo" /\ Served(r, GetHandler(r.req))
CreateTodo(R) ==
    \E r \in R : r.handler = "createTodo" /\ Served(r, CreateHandler(r.req))
UpdateTodo(R) ==
    \E r \in R : r.handler = "updateTodo" /\ Served(r, UpdateHandler(r.req))
DeleteTodo(R) ==
    \E r \in R : r.handler = "deleteTodo" /\ Served(r, DeleteHandler(r.req))
DeleteTodos(R) ==
    \E r \in R : r.handler = "deleteTodos" /\ Served(r, DeleteAllHandler(r.req))
NotFound(R) ==
    \E r \in R : r.handler = "notFound" /\ Served(r, NotFoundHandler(r.req))
\* No disjunct of a next-state relation below: Dispatch sends no request
\* to it (C2_StatsReached).
GetStats(R) ==
    \E r \in R : r.handler = "stats" /\ Served(r, StatsHandler(r.req))

\* Time passes between two requests.
Tick ==
    /\ now < MaxTicks * TickMs
    /\ now' = now + TickMs
    /\ UNCHANGED <<todos, nextId, request, response, assigned>>

NoRequest == Req("", <<>>, NoQuery, NoBody)
NoResponse == Response("", 0, [success |-> FALSE])

Init ==
    /\ todos = InitialTodos(0)
    /\ nextId = InitialNextId
    /\ now = 0
    /\ request = NoRequest
    /\ response = NoResponse
    /\ assigned = [ever |-> {1, 2, 3}, sinceClear |-> {1, 2, 3}]

(***************************************************************************)
(* Spec: the whole API under a small set of requests of every kind.        *)
(***************************************************************************)
urgent == <<"u","r","g","e","n","t">>
yes    == <<"y","e","s">>
Ab     == <<"A","b">>

Get(path)       == Req("GET", path, NoQuery, NoBody)
Post(body)      == Req("POST", TodosPath, NoQuery, body)
Put(id, body)   == Req("PUT", TodoPath(id), NoQuery, body)
Delete(id)      == Req("DELETE", TodoPath(id), NoQuery, NoBody)
DeleteAll(completed) ==
    Req("DELETE", TodosPath, Query(completed, undefined, undefined), NoBody)

Requests ==
    Routed(
       {Get(<<>>), Get(<<api, health>>), Get(TodosPath), Get(<<api>>),
        Get(TodoPath(<<"1">>)), Get(TodoPath(stats)),
        Post(Body(Str(<<" ">> \o Ab), undefined, undefined)),
        Put(<<"1">>, Body(undefined, Str(yes), undefined)),
        Put(<<"2">>, Body(undefined, Bool(FALSE), undefined)),
        Delete(<<"1">>), Delete(<<"4">>),
        DeleteAll(undefined), DeleteAll(Str(true)), DeleteAll(Str(false)),
        DeleteAll(Str(yes))})

Next ==
    \/ GetRoot(Requests)
    \/ GetHealth(Requests)
    \/ ListTodos(Requests)
    \/ GetTodo(Requests)
    \/ CreateTodo(Requests)
    \/ UpdateTodo(Requests)
    \/ DeleteTodo(Requests)
    \/ DeleteTodos(Requests)
    \/ NotFound(Requests)
    \/ Tick

Spec == Init /\ [][Next]_vars

(***************************************************************************)
(* SpecCreate: POST /api/todos under texts around the length limit, with   *)
(* and without white space around them, and every priority Create takes.   *)
(***************************************************************************)
Cores ==
    {<<>>, Ab, Repeat("a", MaxTextLength - 1), Repeat("a", MaxTextLength),
     Repeat("a", MaxTextLength + Excess)}
Leading  == {<<>>, <<" ">>}
Trailing == {<<>>, <<"\t">>}
CreateTexts == {l \o c \o t : l \in Leading, c \in Cores, t \in Trailing}

CreateRequests ==
    Routed({Post(Body(Str(text), undefined, p)) :
                text \in CreateTexts,
                p \in {undefined, Str(low), Str(medium), Str(high)}})

NextCreate == CreateTodo(CreateRequests)

SpecCreate == Init /\ [][NextCreate]_vars

(***************************************************************************)
(* SpecUpdate: PUT /api/todos/:id under patches of every shape, on a       *)
(* record in the middle of the collection and on an id that is not there,  *)
(* and POST /api/todos with priorities Create does not take.               *)
(***************************************************************************)
Patches ==
    {Body(undefined, undefined, undefined),
     Body(undefined, Bool(TRUE), undefined),
     Body(undefined, null, undefined),
     Body(Str(<<" ">> \o Ab \o <<" ">>), undefined, undefined),
     Body(undefined, undefined, Str(low)),
     Body(Str(Ab), Bool(FALSE), Str(high)),
     Body(undefined, undefined, Str(urgent)),
     Body(Str(Ab), Bool(TRUE), null),
     Body(Number(5), undefined, Str(urgent)),
     Body(null, undefined, Str(urgent)),
     Body(Str(<<" ">>), undefined, Str(urgent)),
     Body(Str(Repeat("a", MaxTextLength + Excess)), undefined, Number(1))}

UpdateRequests ==
    Routed({Put(id, b) : id \in {<<"2">>, <<"9">>}, b \in Patches}
           \cup {Post(Body(Str(Ab), undefined, Str(urgent))),
                 Post(Body(Str(Ab), Bool(TRUE), Str(<<"H","I","G","H">>))),
                 Post(Body(undefined, undefined, null)),
                 Post(Body(Number(0), undefined, Str(urgent))),
                 Post(Body(Number(5), undefined, Str(urgent)))})

NextUpdate ==
    \/ UpdateTodo(UpdateRequests)
    \/ CreateTodo(UpdateRequests)
    \/ Tick

SpecUpdate == Init /\ [][NextUpdate]_vars

(***************************************************************************)
(* SpecList: GET /api/todos under every combination of a few values of the *)
(* three filters, on collections that Create, a patch of `completed` and   *)
(* the clock vary.                                                         *)
(***************************************************************************)
ListRequests ==
    Routed({Req("GET", TodosPath, Query(c, p, q), NoBody) :
                c \in {undefined, Str(true), Str(false)},
                p \in {undefined, Str(<<>>), Str(all), Str(high), Str(urgent)},
                q \in {undefined, Str(<<"E">>), Str(<<"b">>)}}
           \cup {Post(Body(Str(<<"B","e","e">>), undefined, Str(high))),
                 Post(Body(Str(<<"n","e","x","t">>), undefined, Str(low))),
                 Put(<<"3">>, Body(undefined, Str(yes), undefined))})

NextList ==
    \/ ListTodos(ListRequests)
    \/ CreateTodo(ListRequests)
    \/ UpdateTodo(ListRequests)
    \/ Tick

SpecList == Init /\ [][NextList]_vars

(***************************************************************************)
(* Properties.  A step that leaves the clock alone and changes the state   *)
(* is a handler answering request' with response'.                         *)
(***************************************************************************)
HandlerStep(handler) == now' = now /\ response'.handler = handler

Ids(ts) == {ts[i].id : i \in 1..Len(ts)}

\* The id a successful Create returned.
CreatedId(res) == res.body.data.id

(***************************************************************************)
(* C1 (as stated): every successful Create returns an id greater than      *)
(* every id assigned earlier in the process lifetime, the initial records' *)
(* included, so that no id is assigned twice.                              *)
(***************************************************************************)
C1_IdsNeverReused ==
    [][HandlerStep("createTodo") /\ Created(response')
         => \A id \in assigned.ever : CreatedId(response') > id]_vars

(***************************************************************************)
(* C1 (amended): every successful Create returns an id greater than every  *)
(* id assigned since the collection was last cleared by an unfiltered      *)
(* DELETE /api/todos (since the start, the initial records' ids included,  *)
(* when it never was), and that id is the one the new last record carries. *)
(***************************************************************************)
C1_IdsIncreaseSinceClear ==
    [][HandlerStep("createTodo") /\ Created(response')
         => /\ \A id \in assigned.sinceClear : CreatedId(response') > id
            /\ todos'[Len(todos')].id = CreatedId(response')
            /\ Len(todos') = Len(todos) + 1]_vars

\* A Create answered after a record was deleted and after an earlier Create.
C1_Witness ==
    /\ Created(response)
    /\ CreatedId(response) = 5
    /\ 1 \notin Ids(todos)
    /\ assigned.sinceClear = {1, 2, 3, 4, 5}

(***************************************************************************)
(* C2: a GET /api/todos/stats request is answered by the Stats handler     *)
(* with status 200 and the statistics of the collection (completionRate 0  *)
(* when it is empty), never by the Get-one handler with a 404.             *)
(***************************************************************************)
C2_StatsReached ==
    (request.method = "GET" /\ request.path = TodoPath(stats))
        => /\ response.handler = "stats"
           /\ response.status = 200
           /\ response.body = StatsBody(todos)

(***************************************************************************)
(* C3 (as stated): for a string text and a priority that is absent or one  *)
(* of low, medium and high, Create answers 400 exactly when the trimmed    *)
(* text is empty or longer than 100 characters, and otherwise answers 201  *)
(* and stores the trimmed text.                                            *)
(***************************************************************************)
CreateOfString ==
    /\ response.handler = "createTodo"
    /\ request.body.present
    /\ request.body.text.type = "string"
    /\ request.body.priority \in {undefined, Str(low), Str(medium), Str(high)}

C3_TrimmedLimit ==
    CreateOfString =>
        LET text == request.body.text.val
        IN  IF trim(text) = <<>> \/ Len(trim(text)) > MaxTextLength
            THEN response.status = 400
            ELSE /\ response.status = 201
                 /\ response.body.data.text = trim(text)
                 /\ todos[Len(todos)].text = trim(text)

(***************************************************************************)
(* C3 (amended): ... Create answers 400 exactly when the trimmed text is   *)
(* empty or the text as sent, white space included, is longer than 100     *)
(* characters, and otherwise answers 201 and stores the trimmed text.      *)
(***************************************************************************)
C3_UntrimmedLimit ==
    CreateOfString =>
        LET text == request.body.text.val
        IN  IF trim(text) = <<>> \/ Len(text) > MaxTextLength
            THEN response.status = 400 /\ ~response.body.success
            ELSE /\ response.status = 201
                 /\ response.body.data.text = trim(text)
                 /\ todos[Len(todos)].text = trim(text)

\* A text of at most 100 characters once trimmed, longer as sent, refused.
C3_Witness ==
    /\ CreateOfString
    /\ Len(request.body.text.val) > MaxTextLength
    /\ Len(trim(request.body.text.val)) = MaxTextLength
    /\ response.status = 400

(***************************************************************************)
(* C4 (as stated): a priority filter other than low, medium or high is no  *)
(* filter: List returns what the same request without priority returns.    *)
(***************************************************************************)
\* What List returns for the query on the collection as it is.
ListData(query) == ListHandler(Req("GET", TodosPath, query, NoBody)).response.body.data

WithoutPriority(query) == [query EXCEPT !.priority = undefined]

C4_UnknownPriorityIgnored ==
    (/\ response.handler = "listTodos"
     /\ request.query.priority \notin {Str(low), Str(medium), Str(high)})
        => response.body.data = ListData(WithoutPriority(request.query))

(***************************************************************************)
(* C4 (amended): a priority filter that is absent, empty or "all" is no    *)
(* filter; any other value, one that names no priority such as "urgent"    *)
(* included, keeps only the records whose priority equals it, so such a    *)
(* value returns no record.                                                *)
(***************************************************************************)
C4_OnlyAllBypasses ==
    response.handler = "listTodos" =>
        LET priority == request.query.priority
            unfiltered == ListData(WithoutPriority(request.query))
            Same(todo) == priority.type = "string" /\ todo.priority = priority.val
        IN  IF priority \in {undefined, Str(<<>>), Str(all)}
            THEN response.body.data = unfiltered
            ELSE /\ response.body.data = SelectSeq(unfiltered, Same)
                 /\ priority.val \notin {low, medium, high}
                        => response.body.data = <<>>

\* "urgent" returned nothing where the request without it returns records.
C4_Witness ==
    /\ response.handler = "listTodos"
    /\ request.query.priority = Str(urgent)
    /\ response.body.data = <<>>
    /\ Len(ListData(WithoutPriority(request.query))) >= 2

(***************************************************************************)
(* C5 (as stated): Create or Update with a priority outside low, medium    *)
(* and high answers 400 and leaves the collection and the id counter as    *)
(* they were, whatever the id and the other fields.                        *)
(***************************************************************************)
InvalidPriorityPassed(req) ==
    /\ req.body.present
    /\ req.body.priority.type # "undefined"
    /\ req.body.priority \notin {Str(low), Str(medium), Str(high)}

C5_InvalidPriorityIs400 ==
    [][((HandlerStep("createTodo") \/ HandlerStep("updateTodo"))
            /\ InvalidPriorityPassed(request'))
         => /\ response'.status = 400
            /\ todos' = todos
            /\ nextId' = nextId]_vars

(***************************************************************************)
(* C5 (amended): Create or Update with a priority outside low, medium and  *)
(* high fails and leaves the collection and the id counter as they were;   *)
(* the answer is 404 when Update's id matches no record, 500 when the text *)
(* is a value that is no string (for Create: a truthy one; for Update, on  *)
(* an existing id: any value sent), and 400 in every other case.           *)
(***************************************************************************)
C5_InvalidPriorityFails ==
    [][((HandlerStep("createTodo") \/ HandlerStep("updateTodo"))
            /\ InvalidPriorityPassed(request'))
         => LET text == request'.body.text
                expected ==
                    IF response'.handler = "updateTodo"
                    THEN IF \A i \in 1..Len(todos) :
                                Num(todos[i].id) # parseInt(request'.path[3])
                         THEN 404
                         ELSE IF text.type \notin {"undefined", "string"}
                         THEN 500 ELSE 400
                    ELSE IF Truthy(text) /\ text.type # "string"
                         THEN 500 ELSE 400
            IN  /\ response'.status = expected
                /\ ~response'.body.success
                /\ todos' = todos
                /\ nextId' = nextId]_vars

\* An Update with an invalid priority answered NotFound.
C5_Witness ==
    /\ response.handler = "updateTodo"
    /\ InvalidPriorityPassed(request)
    /\ response.status = 404
    /\ todos[2].priority = low

(***************************************************************************)
(* C6: a successful Update changes, of the record with the id, only the    *)
(* fields the patch holds and updatedAt, which does not go back; id and    *)
(* createdAt, every other record, the size of the collection and the id    *)
(* counter stay as they were.                                              *)
(***************************************************************************)
C6_UpdateFrame ==
    [][(HandlerStep("updateTodo") /\ response'.status = 200)
         => LET id    == parseInt(request'.path[3])
                patch == request'.body
                i     == CHOOSE k \in 1..Len(todos) : Num(todos[k].id) = id
            IN  /\ \E k \in 1..Len(todos) : Num(todos[k].id) = id
                /\ Len(todos') = Len(todos)
                /\ nextId' = nextId
                /\ \A j \in 1..Len(todos) : j # i => todos'[j] = todos[j]
                /\ todos'[i].id = todos[i].id
                /\ todos'[i].createdAt = todos[i].createdAt
                /\ patch.text.type = "undefined"
                       => todos'[i].text = todos[i].text
                /\ patch.completed.type = "undefined"
                       => todos'[i].completed = todos[i].completed
                /\ patch.priority.type = "undefined"
                       => todos'[i].priority = todos[i].priority
                /\ DateParse(todos'[i].updatedAt) >= DateParse(todos[i].updatedAt)
                /\ response'.body.data = todos'[i]]_vars

\* {completed: true} applied, later than the record was created, to a
\* record whose text and priority earlier patches had set.
C6_Witness ==
    /\ response.handler = "updateTodo"
    /\ response.status = 200
    /\ request.body = Body(undefined, Bool(TRUE), undefined)
    /\ todos[2].text = Ab
    /\ todos[2].priority = low
    /\ todos[2].completed = Bool(TRUE)
    /\ DateParse(todos[2].updatedAt) > DateParse(todos[2].createdAt)

(***************************************************************************)
(* C7: DELETE /api/todos?completed=c removes exactly the records whose     *)
(* completed state is the boolean (c === 'true'), keeps the others         *)
(* unchanged and in their order, reports the number it removed and leaves  *)
(* the id counter alone.                                                   *)
(***************************************************************************)
C7_FilteredDeleteFrame ==
    [][(HandlerStep("deleteTodos") /\ request'.query.completed.type # "undefined")
         => LET b == Bool(request'.query.completed = Str(true))
                Other(todo) == todo.completed # b
            IN  /\ todos' = SelectSeq(todos, Other)
                /\ response'.status = 200
                /\ response'.body.deletedCount = Len(todos) - Len(todos')
                /\ nextId' = nextId]_vars

\* A filtered delete that removed a record and kept another, one of them
\* with a completed field that is no boolean.
C7_Witness ==
    /\ response.handler = "deleteTodos"
    /\ request.query.completed = Str(true)
    /\ response.body.deletedCount >= 1
    /\ \E i \in 1..Len(todos) : todos[i].completed = Str(yes)
    /\ nextId = 5

(***************************************************************************)
(* C8: List returns exactly the records that pass every filter sent        *)
(* (completed state, priority, case-insensitive search), each once, with   *)
(* any two neighbours in priority order (high, medium, low) or, at equal   *)
(* priority, the one created later first; count is the number returned and *)
(* total the size of the collection.                                       *)
(***************************************************************************)
\* text contains search when letter case is ignored.
ContainsIgnoringCase(text, search) ==
    \E k \in 0..(Len(text) - Len(search)) :
        \A n \in 1..Len(search) : LowerChar(text[k + n]) = LowerChar(search[n])

Weight(p) == IF p = high THEN 3 ELSE IF p = medium THEN 2 ELSE 1

Passes(todo, query) ==
    /\ query.completed.type # "undefined"
           => todo.completed = Bool(query.completed = Str(true))
    /\ query.priority \notin {undefined, Str(<<>>), Str(all)}
           => todo.priority = query.priority.val
    /\ query.search \notin {undefined, Str(<<>>)}
           => ContainsIgnoringCase(todo.text, query.search.val)

C8_ListFilteredSorted ==
    response.handler = "listTodos" =>
        LET data == response.body.data
        IN  /\ response.status = 200
            /\ {data[i] : i \in 1..Len(data)}
                   = {todos[j] : j \in {k \in 1..Len(todos) : Passes(todos[k], request.query)}}
            /\ \A i, j \in 1..Len(data) : i # j => data[i].id # data[j].id
            /\ \A i \in 1..(Len(data) - 1) :
                   \/ Weight(data[i].priority) > Weight(data[i + 1].priority)
                   \/ /\ data[i].priority = data[i + 1].priority
                      /\ DateParse(data[i].createdAt) >= DateParse(data[i + 1].createdAt)
            /\ response.body.count = Len(data)
            /\ response.body.total = Len(todos)

\* A listing of three high records, the one created later first and the
\* two created together behind it, under a completed filter and a search
\* that leave a record out.
C8_Witness ==
    /\ response.handler = "listTodos"
    /\ request.query.completed = Str(false)
    /\ request.query.search = Str(<<"E">>)
    /\ Len(response.body.data) = 3
    /\ \A i \in 1..3 : response.body.data[i].priority = high
    /\ DateParse(response.body.data[1].createdAt)
           > DateParse(response.body.data[2].createdAt)
    /\ response.body.data[2].createdAt = response.body.data[3].createdAt
    /\ response.body.total = 4

(***************************************************************************)
(* C9: every record of the collection has a boolean completed field, a     *)
(* priority among low, medium and high, and a non-empty trimmed text of at *)
(* most 100 characters.                                                    *)
(***************************************************************************)
C9_DataModel ==
    \A i \in 1..Len(todos) :
        /\ todos[i].completed.type = "boolean"
        /\ todos[i].priority \in {low, medium, high}
        /\ todos[i].text # <<>>
        /\ trim(todos[i].text) = todos[i].text
        /\ Len(todos[i].text) <= MaxTextLength

(***************************************************************************)
(* C10: the ids in the collection are pairwise distinct positive integers  *)
(* below nextId, and nextId decreases only when an unfiltered              *)
(* DELETE /api/todos sets it to 1 and empties the collection.              *)
(***************************************************************************)
C10_IdsBelowCounter ==
    /\ [](\A i \in 1..Len(todos) :
            /\ todos[i].id \in 1..(nextId - 1)
            /\ \A j \in 1..Len(todos) : i # j => todos[i].id # todos[j].id)
    /\ [][nextId' < nextId
            => /\ HandlerStep("deleteTodos")
               /\ request'.query.completed.type = "undefined"
               /\ nextId' = 1
               /\ todos' = <<>>]_vars

\* The counter was reset by an unfiltered delete after a Create, and a
\* Create has been answered since.
C10_Witness ==
    /\ Created(response)
    /\ CreatedId(response) = 1
    /\ 4 \in assigned.ever
    /\ nextId = 2

====
